---- MODULE Spec2Model ----
(***************************************************************************)
(* Model of backend/utils.py of the recipe chatbot: the module-level       *)
(* configuration (load_dotenv, MODEL_NAME) and get_agent_response, the     *)
(* wrapper around litellm.completion.                                      *)
(*                                                                         *)
(* Text (message contents, reply texts) is a sequence of one-character     *)
(* strings, so that str.strip() is computed and not assumed.  Python lists *)
(* are objects on a heap, addressed by references, so that aliasing        *)
(* (current_messages = messages) and in-place mutation are expressible.    *)
(* Each invocation of get_agent_response is a frame indexed by a session;  *)
(* frames of different sessions interleave line by line.                   *)
(***************************************************************************)
EXTENDS Naturals, Sequences, FiniteSets, TLC

\* ---------------------------------------------------------------- bounds

\* Longest input history enumerated under Spec.
MaxHist == 2
\* Longest service reply text enumerated under Spec.
MaxReplyLen == 3
\* Concurrent invocations (chat sessions) under SpecConc.
NSessions == 2
\* Successful calls of one conversation under SpecTurns.
MaxTurns == 3
\* Messages the caller appends between two turns under SpecTurns.
MaxAppend == 1

\* ------------------------------------------------------------- constants

Sessions == 1..NSessions

Roles == {"system", "user", "assistant"}

\* The characters str.strip() removes (the ones TLA+ can write).
Whitespace == {" ", "\t", "\n", "\r", "\f"}

\* SYSTEM_PROMPT, abbreviated: like the source's literal it starts and ends
\* with a newline.
SYSTEM_PROMPT == <<"\n", "Y", "\n">>

\* The fallback of os.environ.get("MODEL_NAME", "gpt-4o-mini").
DefaultModel == "gpt-4o-mini"

\* {"role": "system", "content": SYSTEM_PROMPT}
SystemMessage == [role |-> "system", content |-> SYSTEM_PROMPT]

\* ------------------------------------------------------- pure functions

RECURSIVE LStrip(_)
LStrip(str) ==
    IF str # <<>> /\ Head(str) \in Whitespace THEN LStrip(Tail(str)) ELSE str

RECURSIVE RStrip(_)
RStrip(str) ==
    IF str # <<>> /\ str[Len(str)] \in Whitespace
    THEN RStrip(SubSeq(str, 1, Len(str) - 1))
    ELSE str

\* A plausible slip: only leading whitespace removed (lstrip for strip).
StripLeadingOnly(str) == LStrip(str)

\* str.strip()
Strip(str) == RStrip(LStrip(str))

\* A plausible slip: the role of the head is never looked at.
NeedsPromptEmptyOnly(msgs) == msgs = <<>>

\* A plausible slip: the prompt is prepended on every call.
NeedsPromptAlways(msgs) == TRUE

\* `not messages or messages[0]["role"] != "system"`
NeedsPrompt(msgs) == msgs = <<>> \/ msgs[1].role # "system"

\* A plausible slip: the operands of `+` swapped.
PrependPromptAtEnd(msgs) == msgs \o <<SystemMessage>>

\* `[{"role": "system", "content": SYSTEM_PROMPT}] + messages`
PrependPrompt(msgs) == <<SystemMessage>> \o msgs

\* `current_messages + [{"role": "assistant", "content": ...}]`
UpdatedMessages(cur, reply) ==
    cur \o <<[role |-> "assistant", content |-> reply]>>

\* The error `completion["choices"][0]["message"]["content"].strip()` raises
\* on a response, "none" when the content is a string.
ExtractionError(resp) ==
    IF resp.choices = <<>> THEN "IndexError"
    ELSE IF "content" \notin DOMAIN resp.choices[1].message THEN "KeyError"
    ELSE IF resp.choices[1].message.content.kind # "str" THEN "AttributeError"
    ELSE "none"

\* completion["choices"][0]["message"]["content"] of an extractable response
ReplyText(resp) == resp.choices[1].message.content.val

\* os.environ.get(key, default)
EnvironGet(env, key, default) ==
    IF key \in DOMAIN env THEN env[key] ELSE default

\* A plausible slip: load_dotenv(override=True).
LoadDotenvOverride(env, file) == file @@ env

\* load_dotenv(override=False): the file's keys are set in os.environ unless
\* already there; a missing file is the empty mapping.
LoadDotenv(env, file) == env @@ file

\* ------------------------------------------------------------ references

NullRef == <<>>

\* The list object the caller passes in.
CallerList(s) == <<s, "in">>

\* A plausible slip: one module-level buffer shared by every invocation.
SharedList(s, slot) == <<1, slot>>

\* A list object created by a `+` of this invocation (always a fresh list).
NewList(s, slot) == <<s, slot>>

\* The list objects of session s: its caller's and its invocation's.
Frame(s) == {<<s, "in">>, <<s, "cur">>, <<s, "out">>}

NoCompletion == [kind |-> "none"]

\* ----------------------------------------------------------------- state

VARIABLES
    environ,                  \* os.environ, restricted to the key MODEL_NAME
    dotenv_file,              \* the key/value pairs of the .env file
    loaded,                   \* the module has been imported
    MODEL_NAME,               \* the module constant (meaningful once loaded)
    envAtLoad,                \* history: os.environ when the import began
    heap,                     \* list objects: reference -> sequence of messages
    pc,                       \* per session: where its invocation stands
    messages,                 \* per session: reference of the parameter
    current_messages,         \* per session: reference of the local
    sent,                     \* per session: requests issued by its invocation
    completion,               \* per session: what litellm.completion produced
    assistant_reply_content,  \* per session: the local
    updated_messages,         \* per session: reference of the returned list
    error,                    \* per session: the exception that left the call
    arg,                      \* history: contents of the caller's list at call
    prev,                     \* history: the sequence the previous turn returned
    turn                      \* history: successful earlier turns

vars == <<environ, dotenv_file, loaded, MODEL_NAME, envAtLoad, heap, pc,
          messages, current_messages, sent, completion,
          assistant_reply_content, updated_messages, error, arg, prev, turn>>

config == <<environ, dotenv_file, loaded, MODEL_NAME, envAtLoad>>

locals == <<messages, current_messages, sent, completion,
            assistant_reply_content, updated_messages, error>>

history == <<arg, prev, turn>>

\* --------------------------------------------------------- input domains

SeqsUpTo(S, n) == UNION {[1..k -> S] : k \in 0..n}

\* Contents a caller may put in a message: the prompt itself and a text.
InputContents == {SYSTEM_PROMPT, <<"h", "i">>}

InputMessages == [role : Roles, content : InputContents]

Histories == SeqsUpTo(InputMessages, MaxHist)

ReplyChars == {" ", "\n", "a"}

Replies == SeqsUpTo(ReplyChars, MaxReplyLen)

\* Exceptions litellm.completion raises (transport, authentication).
ServiceErrors == {"APIConnectionError", "AuthenticationError"}

StrContent(text) == [kind |-> "str", val |-> text]

NoneContent == [kind |-> "None"]

Choice(c) == [message |-> [role |-> "assistant", content |-> c]]

ChoiceWithoutContent == [message |-> [role |-> "assistant"]]

Response(choices) == [kind |-> "response", choices |-> choices]

\* What one call of litellm.completion can produce: an exception, or a
\* response whose choice list is empty, lacks the content, holds None, or
\* holds a text (alone or followed by a second choice).
Outcomes(replies) ==
    {[kind |-> "raise", exc |-> e] : e \in ServiceErrors}
    \cup {Response(<<>>),
          Response(<<ChoiceWithoutContent>>),
          Response(<<Choice(NoneContent)>>)}
    \cup {Response(<<Choice(StrContent(r))>>) : r \in replies}
    \cup {Response(<<Choice(StrContent(r)), Choice(StrContent(<<"z">>))>>) :
             r \in replies}

\* --------------------------------------------------------------- actions

\* Import of the module: load_dotenv(override=False), then MODEL_NAME.
LoadModule ==
    /\ ~loaded
    /\ envAtLoad' = environ
    /\ environ' = LoadDotenv(environ, dotenv_file)
    /\ MODEL_NAME' = EnvironGet(environ', "MODEL_NAME", DefaultModel)
    /\ loaded' = TRUE
    /\ UNCHANGED <<dotenv_file, heap, pc, locals, history>>

\* Other code of the process sets os.environ["MODEL_NAME"].
SetEnv(v) ==
    /\ environ' = [k \in {"MODEL_NAME"} |-> v]
    /\ environ' # environ
    /\ UNCHANGED <<dotenv_file, loaded, MODEL_NAME, envAtLoad, heap, pc,
                   locals, history>>

\* Other code of the process deletes os.environ["MODEL_NAME"].
UnsetEnv ==
    /\ "MODEL_NAME" \in DOMAIN environ
    /\ environ' = <<>>
    /\ UNCHANGED <<dotenv_file, loaded, MODEL_NAME, envAtLoad, heap, pc,
                   locals, history>>

\* The heap without the list objects of session s.
Dropped(s) == [a \in DOMAIN heap \ Frame(s) |-> heap[a]]

\* The frame of a new invocation get_agent_response(messages), the caller's
\* list holding H, the other list objects being those of `rest`.
Enter(s, H, rest) ==
    /\ heap' = (CallerList(s) :> H) @@ rest
    /\ pc' = [pc EXCEPT ![s] = "line78"]
    /\ messages' = [messages EXCEPT ![s] = CallerList(s)]
    /\ current_messages' = [current_messages EXCEPT ![s] = NullRef]
    /\ sent' = [sent EXCEPT ![s] = <<>>]
    /\ completion' = [completion EXCEPT ![s] = NoCompletion]
    /\ assistant_reply_content' = [assistant_reply_content EXCEPT ![s] = <<>>]
    /\ updated_messages' = [updated_messages EXCEPT ![s] = NullRef]
    /\ error' = [error EXCEPT ![s] = "none"]
    /\ arg' = [arg EXCEPT ![s] = H]

\* A caller invokes get_agent_response with a history of its own.
Call(s, H) ==
    /\ loaded
    /\ pc[s] = "idle"
    /\ Enter(s, H, heap)
    /\ UNCHANGED <<config, prev, turn>>

\* Lines 78-81: the effective sequence.
Prepare(s) ==
    /\ pc[s] = "line78"
    /\ IF NeedsPrompt(heap[messages[s]])
       THEN /\ heap' = (NewList(s, "cur") :> PrependPrompt(heap[messages[s]]))
                       @@ heap
            /\ current_messages' =
                   [current_messages EXCEPT ![s] = NewList(s, "cur")]
       ELSE /\ heap' = heap
            /\ current_messages' = [current_messages EXCEPT ![s] = messages[s]]
    /\ pc' = [pc EXCEPT ![s] = "line83"]
    /\ UNCHANGED <<config, messages, sent, completion,
                   assistant_reply_content, updated_messages, error, history>>

\* Lines 83-86: the request leaves for the completion service.
Request(s) ==
    /\ pc[s] = "line83"
    /\ sent' = [sent EXCEPT ![s] = Append(@,
                   [model |-> MODEL_NAME,
                    messages |-> heap[current_messages[s]]])]
    /\ pc' = [pc EXCEPT ![s] = "await"]
    /\ UNCHANGED <<config, heap, messages, current_messages, completion,
                   assistant_reply_content, updated_messages, error, history>>

\* A mutant of Respond: a failed request is issued again.
RespondRetrying(s, o) ==
    /\ pc[s] = "await"
    /\ completion' = [completion EXCEPT ![s] = o]
    /\ pc' = [pc EXCEPT ![s] = IF o.kind = "raise" THEN "line83" ELSE "line88"]
    /\ UNCHANGED <<config, heap, messages, current_messages, sent,
                   assistant_reply_content, updated_messages, error, history>>

\* litellm.completion returns o or raises it; nothing catches an exception.
Respond(s, o) ==
    /\ pc[s] = "await"
    /\ completion' = [completion EXCEPT ![s] = o]
    /\ IF o.kind = "raise"
       THEN /\ pc' = [pc EXCEPT ![s] = "raised"]
            /\ error' = [error EXCEPT ![s] = o.exc]
       ELSE /\ pc' = [pc EXCEPT ![s] = "line88"]
            /\ error' = error
    /\ UNCHANGED <<config, heap, messages, current_messages, sent,
                   assistant_reply_content, updated_messages, history>>

\* A mutant of Extract: a response without a text yields an empty reply.
ExtractWithFallback(s) ==
    /\ pc[s] = "line88"
    /\ assistant_reply_content' = [assistant_reply_content EXCEPT ![s] =
           IF ExtractionError(completion[s]) = "none"
           THEN Strip(ReplyText(completion[s]))
           ELSE <<>>]
    /\ pc' = [pc EXCEPT ![s] = "line94"]
    /\ UNCHANGED <<config, heap, messages, current_messages, sent, completion,
                   updated_messages, error, history>>

\* Lines 88-91: the first choice's content, stripped; or the error raised.
Extract(s) ==
    /\ pc[s] = "line88"
    /\ IF ExtractionError(completion[s]) = "none"
       THEN /\ assistant_reply_content' = [assistant_reply_content EXCEPT
                   ![s] = Strip(ReplyText(completion[s]))]
            /\ pc' = [pc EXCEPT ![s] = "line94"]
            /\ error' = error
       ELSE /\ assistant_reply_content' = assistant_reply_content
            /\ pc' = [pc EXCEPT ![s] = "raised"]
            /\ error' = [error EXCEPT ![s] = ExtractionError(completion[s])]
    /\ UNCHANGED <<config, heap, messages, current_messages, sent, completion,
                   updated_messages, history>>

\* A mutant of AppendReply: current_messages.append(...) and return it.
AppendReplyInPlace(s) ==
    /\ pc[s] = "line94"
    /\ heap' = [heap EXCEPT ![current_messages[s]] =
                   UpdatedMessages(@, assistant_reply_content[s])]
    /\ updated_messages' = [updated_messages EXCEPT ![s] = current_messages[s]]
    /\ pc' = [pc EXCEPT ![s] = "returned"]
    /\ UNCHANGED <<config, messages, current_messages, sent, completion,
                   assistant_reply_content, error, history>>

\* Lines 94-95: a new list, the effective sequence plus the reply, returned.
AppendReply(s) ==
    /\ pc[s] = "line94"
    /\ heap' = (NewList(s, "out") :>
                   UpdatedMessages(heap[current_messages[s]],
                                   assistant_reply_content[s]))
               @@ heap
    /\ updated_messages' = [updated_messages EXCEPT ![s] = NewList(s, "out")]
    /\ pc' = [pc EXCEPT ![s] = "returned"]
    /\ UNCHANGED <<config, messages, current_messages, sent, completion,
                   assistant_reply_content, error, history>>

\* The caller is done with this invocation (returned or raised) and drops
\* its lists; the session may call again with a new history.
Reset(s) ==
    /\ pc[s] \in {"returned", "raised"}
    /\ heap' = Dropped(s)
    /\ pc' = [pc EXCEPT ![s] = "idle"]
    /\ messages' = [messages EXCEPT ![s] = NullRef]
    /\ current_messages' = [current_messages EXCEPT ![s] = NullRef]
    /\ sent' = [sent EXCEPT ![s] = <<>>]
    /\ completion' = [completion EXCEPT ![s] = NoCompletion]
    /\ assistant_reply_content' = [assistant_reply_content EXCEPT ![s] = <<>>]
    /\ updated_messages' = [updated_messages EXCEPT ![s] = NullRef]
    /\ error' = [error EXCEPT ![s] = "none"]
    /\ arg' = [arg EXCEPT ![s] = <<>>]
    /\ prev' = [prev EXCEPT ![s] = <<>>]
    /\ turn' = [turn EXCEPT ![s] = 0]
    /\ UNCHANGED config

\* The next turn of a conversation: the caller passes the returned sequence
\* with the messages A appended.
FollowUp(s, A) ==
    /\ pc[s] = "returned"
    /\ turn[s] + 1 < MaxTurns
    /\ Enter(s, heap[updated_messages[s]] \o A, Dropped(s))
    /\ prev' = [prev EXCEPT ![s] = heap[updated_messages[s]]]
    /\ turn' = [turn EXCEPT ![s] = @ + 1]
    /\ UNCHANGED config

\* The caller calls again with the same history after a failure.
Retry(s) ==
    /\ pc[s] = "raised"
    /\ Enter(s, arg[s], Dropped(s))
    /\ UNCHANGED <<config, prev, turn>>

\* -------------------------------------------------------- specifications

InitFrames ==
    /\ heap = <<>>
    /\ pc = [s \in Sessions |-> "idle"]
    /\ messages = [s \in Sessions |-> NullRef]
    /\ current_messages = [s \in Sessions |-> NullRef]
    /\ sent = [s \in Sessions |-> <<>>]
    /\ completion = [s \in Sessions |-> NoCompletion]
    /\ assistant_reply_content = [s \in Sessions |-> <<>>]
    /\ updated_messages = [s \in Sessions |-> NullRef]
    /\ error = [s \in Sessions |-> "none"]
    /\ arg = [s \in Sessions |-> <<>>]
    /\ prev = [s \in Sessions |-> <<>>]
    /\ turn = [s \in Sessions |-> 0]

InitUnloaded ==
    /\ loaded = FALSE
    /\ MODEL_NAME = ""
    /\ envAtLoad = <<>>

\* The process starts with MODEL_NAME neither in its environment nor in a
\* .env file; the module is not imported yet.
Init ==
    /\ environ = <<>>
    /\ dotenv_file = <<>>
    /\ InitUnloaded
    /\ InitFrames

\* One caller, one invocation at a time, every history and every outcome.
Next ==
    \/ LoadModule
    \/ \E H \in Histories : Call(1, H)
    \/ Prepare(1)
    \/ Request(1)
    \/ \E o \in Outcomes(Replies) : Respond(1, o)
    \/ Extract(1)
    \/ AppendReply(1)
    \/ Reset(1)

Spec == Init /\ [][Next]_vars

\* The environment of a process, for the key MODEL_NAME: unset, empty, or
\* a model identifier.
ModelNames == {"", "gpt-4o"}

EnvDicts == {<<>>} \cup {[k \in {"MODEL_NAME"} |-> v] : v \in ModelNames}

Hi == <<"h", "i">>

\* The histories of the specification's scenarios A, B and C.
ScenarioHistories ==
    {<<>>,
     <<[role |-> "user", content |-> Hi]>>,
     <<[role |-> "system", content |-> Hi], [role |-> "user", content |-> Hi]>>}

ConfigReplies == {<<"a">>}

\* Any environment and any .env file at the start of the process.
InitConfig ==
    /\ environ \in EnvDicts
    /\ dotenv_file \in EnvDicts
    /\ InitUnloaded
    /\ InitFrames

\* The import, calls, and an environment that changes at any time.
NextConfig ==
    \/ LoadModule
    \/ \E v \in ModelNames : SetEnv(v)
    \/ UnsetEnv
    \/ \E H \in ScenarioHistories : Call(1, H)
    \/ Prepare(1)
    \/ Request(1)
    \/ \E o \in Outcomes(ConfigReplies) : Respond(1, o)
    \/ Extract(1)
    \/ AppendReply(1)
    \/ Reset(1)

SpecConfig == InitConfig /\ [][NextConfig]_vars

\* What a caller appends between turns: user and assistant messages.
TurnMessages ==
    {[role |-> "user", content |-> Hi],
     [role |-> "assistant", content |-> SYSTEM_PROMPT]}

TurnReplies == {<<"a">>, <<" ", "b", "\n">>}

\* One conversation: each call after the first passes the sequence the
\* previous call returned, with messages appended; a failed call is retried.
NextTurns ==
    \/ LoadModule
    \/ \E H \in ScenarioHistories : Call(1, H)
    \/ Prepare(1)
    \/ Request(1)
    \/ \E o \in Outcomes(TurnReplies) : Respond(1, o)
    \/ Extract(1)
    \/ AppendReply(1)
    \/ \E A \in SeqsUpTo(TurnMessages, MaxAppend) : FollowUp(1, A)
    \/ Retry(1)

SpecTurns == Init /\ [][NextTurns]_vars

ConcReplies == {<<"a">>, <<"\n", "b", " ">>}

\* Several sessions, their invocations interleaved line by line.
NextConc ==
    \/ LoadModule
    \/ \E s \in Sessions :
        \/ \E H \in ScenarioHistories : Call(s, H)
        \/ Prepare(s)
        \/ Request(s)
        \/ \E o \in Outcomes(ConcReplies) : Respond(s, o)
        \/ Extract(s)
        \/ AppendReply(s)
        \/ Reset(s)

SpecConc == Init /\ [][NextConc]_vars

\* ------------------------------------------- vocabulary of the properties

\* The effective sequence the specification describes for an input H.
ExpectedEffective(H) ==
    IF H = <<>> \/ H[1].role # "system" THEN <<SystemMessage>> \o H ELSE H

\* c is R without its leading and trailing whitespace: R is a run of
\* whitespace, then c, then a run of whitespace, and c neither starts nor
\* ends with whitespace.
IsStripOf(c, R) ==
    \E a \in 0..Len(R) : \E b \in 0..(Len(R) - a) :
        /\ \A i \in 1..a : R[i] \in Whitespace
        /\ \A i \in (Len(R) - b + 1)..Len(R) : R[i] \in Whitespace
        /\ c = SubSeq(R, a + 1, Len(R) - b)
        /\ c = <<>> \/ (c[1] \notin Whitespace /\ c[Len(c)] \notin Whitespace)

\* The response carries a text as its first choice's message content.
HasText(o) ==
    /\ o.kind = "response"
    /\ o.choices # <<>>
    /\ "content" \in DOMAIN o.choices[1].message
    /\ o.choices[1].message.content.kind = "str"

FirstText(o) == o.choices[1].message.content.val

Count(seq, m) == Cardinality({i \in 1..Len(seq) : seq[i] = m})

CountRole(seq, r) == Cardinality({i \in 1..Len(seq) : seq[i].role = r})

Returned(s) == pc[s] = "returned"

Result(s) == heap[updated_messages[s]]

\* ------------------------------------------------------------ properties

\* C1: whatever the input history, a returned sequence is non-empty, its
\* first element has role "system" and its last element is the newly
\* produced assistant message.
C1_ReturnedShape ==
    \A s \in Sessions : Returned(s) =>
        /\ Len(Result(s)) > 0
        /\ Result(s)[1].role = "system"
        /\ Result(s)[Len(Result(s))] =
               [role |-> "assistant", content |-> assistant_reply_content[s]]

C1_Witness ==
    /\ Returned(1)
    /\ arg[1] # <<>>
    /\ arg[1][1].role = "user"
    /\ Result(1)[1] = SystemMessage
    /\ Len(Result(1)) = Len(arg[1]) + 2

\* C2: the sequence passed to the completion service is [system prompt] + H
\* when H is empty or does not start with a system message, and H itself
\* when it does (a custom system message is kept, nothing is inserted).
C2_EffectiveSequence ==
    \A s \in Sessions : sent[s] # <<>> =>
        /\ (arg[s] = <<>> \/ arg[s][1].role # "system")
               => sent[s][1].messages = <<SystemMessage>> \o arg[s]
        /\ (arg[s] # <<>> /\ arg[s][1].role = "system")
               => sent[s][1].messages = arg[s]

C2_Witness ==
    /\ sent[1] # <<>>
    /\ Len(arg[1]) = 2
    /\ arg[1][1] = [role |-> "system", content |-> <<"h", "i">>]
    /\ arg[1][2].role = "user"
    /\ sent[1][1].messages = arg[1]

\* C3: a successful call returns the effective sequence E followed by one
\* assistant message whose content is the reply text stripped; its length is
\* Len(E) + 1 and its first Len(E) elements are E.
C3_ReturnedSequence ==
    \A s \in Sessions : Returned(s) =>
        LET E == sent[s][1].messages
            r == Result(s)
        IN  /\ Len(r) = Len(E) + 1
            /\ SubSeq(r, 1, Len(E)) = E
            /\ r[Len(r)].role = "assistant"
            /\ HasText(completion[s])
            /\ IsStripOf(r[Len(r)].content, FirstText(completion[s]))

C3_Witness ==
    /\ Returned(1)
    /\ FirstText(completion[1]) = <<" ", "a", "\n">>
    /\ Result(1)[Len(Result(1))].content = <<"a">>
    /\ Len(sent[1][1].messages) = 3

\* C4 as stated: the sequence sent to the service contains the constant
\* system prompt exactly once, whatever the caller supplies.
C4_PromptExactlyOnce ==
    \A s \in Sessions : sent[s] # <<>> =>
        Count(sent[s][1].messages, SystemMessage) = 1

\* C4 amended: the sequence sent starts with a system message and holds the
\* constant prompt once more than the input when the input is empty or does
\* not start with a system message, and as often as the input otherwise.
C4_PromptCount ==
    \A s \in Sessions : sent[s] # <<>> =>
        /\ sent[s][1].messages[1].role = "system"
        /\ Count(sent[s][1].messages, SystemMessage) =
               Count(arg[s], SystemMessage)
               + (IF arg[s] = <<>> \/ arg[s][1].role # "system" THEN 1 ELSE 0)

C4_Witness ==
    /\ sent[1] # <<>>
    /\ arg[1] # <<>>
    /\ arg[1][1] = [role |-> "system", content |-> <<"h", "i">>]
    /\ Count(sent[1][1].messages, SystemMessage) = 0

\* C5: when the service call raises, or the response has no choice or no
\* text, the invocation ends with that error: it never reaches the append,
\* returns nothing and produces no assistant message.
C5_FailurePropagates ==
    \A s \in Sessions :
        /\ completion[s].kind = "raise" =>
               /\ pc[s] = "raised"
               /\ error[s] = completion[s].exc
        /\ (completion[s].kind = "response" /\ ~HasText(completion[s])) =>
               /\ pc[s] \in {"line88", "raised"}
               /\ pc[s] = "raised" =>
                      error[s] = IF completion[s].choices = <<>>
                                 THEN "IndexError"
                                 ELSE IF "content" \in
                                         DOMAIN completion[s].choices[1].message
                                      THEN "AttributeError"
                                      ELSE "KeyError"
        /\ pc[s] = "raised" =>
               /\ updated_messages[s] = NullRef
               /\ NewList(s, "out") \notin DOMAIN heap
               /\ assistant_reply_content[s] = <<>>
               /\ error[s] # "none"

C5_Witness ==
    /\ pc[1] = "raised"
    /\ completion[1] = Response(<<>>)
    /\ error[1] = "IndexError"
    /\ Len(sent[1]) = 1

\* C6: the caller's list is never changed: during and after every
\* invocation it holds what it held at the call, and the returned list is
\* another object.
C6_InputNotMutated ==
    \A s \in Sessions : pc[s] # "idle" =>
        /\ heap[messages[s]] = arg[s]
        /\ Returned(s) => updated_messages[s] # messages[s]

C6_Witness ==
    /\ Returned(1)
    /\ current_messages[1] = messages[1]
    /\ Len(heap[messages[1]]) = 2
    /\ Len(Result(1)) = 3

\* C7: an invocation issues exactly one request: none before line 83, one
\* from then on, also when the request fails.
C7_OneRequest ==
    \A s \in Sessions :
        /\ pc[s] \in {"idle", "line78", "line83"} => Len(sent[s]) = 0
        /\ pc[s] \in {"await", "line88", "line94", "returned", "raised"}
               => Len(sent[s]) = 1

C7_Witness ==
    /\ pc[1] = "raised"
    /\ completion[1].kind = "raise"
    /\ Len(sent[1]) = 1
\* C8: with invocations running concurrently, each request and each result
\* is the one its own input and its own reply determine, each caller's list
\* stays as passed, and the model identifier is the one resolved at import.
C8_Isolation ==
    /\ loaded => MODEL_NAME = "gpt-4o-mini"
    /\ \A s \in Sessions :
        /\ pc[s] # "idle" => heap[messages[s]] = arg[s]
        /\ sent[s] # <<>> =>
               sent[s][1] = [model |-> "gpt-4o-mini",
                             messages |-> ExpectedEffective(arg[s])]
        /\ Returned(s) =>
               /\ Len(Result(s)) = Len(ExpectedEffective(arg[s])) + 1
               /\ SubSeq(Result(s), 1, Len(Result(s)) - 1) =
                      ExpectedEffective(arg[s])
               /\ Result(s)[Len(Result(s))].role = "assistant"
               /\ IsStripOf(Result(s)[Len(Result(s))].content,
                            FirstText(completion[s]))

C8_Witness ==
    /\ Returned(1)
    /\ Returned(2)
    /\ arg[1] = <<>>
    /\ Len(arg[2]) = 2
    /\ FirstText(completion[1]) = <<"a">>
    /\ FirstText(completion[2]) = <<"\n", "b", " ">>
    /\ Result(1) = <<SystemMessage, [role |-> "assistant", content |-> <<"a">>]>>
    /\ Result(2) = arg[2] \o <<[role |-> "assistant", content |-> <<"b">>]>>

\* C9: the model identifier is resolved at import: the default when
\* MODEL_NAME is in neither the process environment nor the .env file, the
\* process environment's value when it is there (the file never overrides
\* it), the file's value otherwise; every request carries that value,
\* whatever the environment has become since.
C9_ModelResolvedOnce ==
    loaded =>
        /\ ("MODEL_NAME" \notin DOMAIN envAtLoad
            /\ "MODEL_NAME" \notin DOMAIN dotenv_file)
               => MODEL_NAME = "gpt-4o-mini"
        /\ "MODEL_NAME" \in DOMAIN envAtLoad
               => MODEL_NAME = envAtLoad["MODEL_NAME"]
        /\ ("MODEL_NAME" \notin DOMAIN envAtLoad
            /\ "MODEL_NAME" \in DOMAIN dotenv_file)
               => MODEL_NAME = dotenv_file["MODEL_NAME"]
        /\ \A s \in Sessions : \A i \in 1..Len(sent[s]) :
               sent[s][i].model = MODEL_NAME

C9_Witness ==
    /\ loaded
    /\ envAtLoad = [k \in {"MODEL_NAME"} |-> "gpt-4o"]
    /\ dotenv_file = [k \in {"MODEL_NAME"} |-> ""]
    /\ environ = <<>>
    /\ Returned(1)
    /\ sent[1][1].model = "gpt-4o"

\* C10: in every turn after the first of a conversation the input is sent
\* unchanged (no prompt is prepended), its first element and its number of
\* system messages are those of the previous result, and the result is the
\* input plus one assistant message, the previous result being its prefix.
C10_LaterTurns ==
    \A s \in Sessions : turn[s] >= 1 =>
        /\ Len(arg[s]) >= Len(prev[s])
        /\ SubSeq(arg[s], 1, Len(prev[s])) = prev[s]
        /\ pc[s] \notin {"idle", "line78"} =>
               /\ current_messages[s] = messages[s]
               /\ heap[current_messages[s]] = arg[s]
        /\ sent[s] # <<>> =>
               /\ sent[s][1].messages = arg[s]
               /\ sent[s][1].messages[1] = prev[s][1]
               /\ CountRole(sent[s][1].messages, "system") =
                      CountRole(prev[s], "system")
        /\ Returned(s) =>
               /\ Len(Result(s)) = Len(arg[s]) + 1
               /\ SubSeq(Result(s), 1, Len(arg[s])) = arg[s]
               /\ Result(s)[Len(Result(s))].role = "assistant"
               /\ Result(s)[1] = prev[s][1]
               /\ CountRole(Result(s), "system") = CountRole(prev[s], "system")

C10_Witness ==
    /\ turn[1] = 2
    /\ Returned(1)
    /\ prev[1][1] = SystemMessage
    /\ Len(arg[1]) = Len(prev[1]) + 1
    /\ Len(Result(1)) = 6
    /\ CountRole(Result(1), "system") = 1

====
